---- MODULE Spec2Model ----
(***************************************************************************)
(* State-machine model of the crypto-fl API layer (rust/src/api): the COSE *)
(* envelope functions of cose.rs, the key handles of xdsa.rs / xhpke.rs    *)
(* and the STREAM functions of stream.rs.                                  *)
(*                                                                         *)
(* The functions of src/ forward to the darkbio_crypto crate.  That crate  *)
(* is modelled symbolically (Dolev-Yao style): a signature / ciphertext is *)
(* a record naming the key and the data it was made from, plus a flag that *)
(* says whether its bytes are still the ones the primitive produced.       *)
(* Byte strings are sequences of bits.                                     *)
(***************************************************************************)
EXTENDS Integers, Sequences, FiniteSets, TLC

VARIABLES
    now,    \* the system clock read by sign / verify (Unix seconds)
    rng,    \* the next value the system's random source returns
    msg,    \* the envelope bytes the caller currently holds
    prov,   \* history variable: how msg was produced
    res     \* the last API call: its name, arguments and returned value

vars == <<now, rng, msg, prov, res>>

----------------------------------------------------------------------------
(* Bounds of the model *)

MaxLen == 1      \* payloads are bit strings of length 0..MaxLen
MaxClock == 2    \* clock readings are 0..MaxClock
MaxDrift == 1    \* drift bounds are None or Some(0..MaxDrift)

Bit == {0, 1}
BitStrings(n) == UNION {[1..k -> Bit] : k \in 0..n}

Payloads == BitStrings(MaxLen)
\* aad and domain are opaque caller-supplied byte strings
Aads == {<<>>, <<1>>}
Domains == {<<>>, <<1>>}
Times == 0..MaxClock
KeyIds == {0, 1}

\* Option<u64>
None == [some |-> FALSE, v |-> 0]
Some(d) == [some |-> TRUE, v |-> d]
DriftOpts == {None} \cup {Some(d) : d \in 0..MaxDrift}

\* Result<T, String>: a sum type, an Err carries no value
Ok(v) == [ok |-> TRUE, val |-> v]
Err(e) == [ok |-> FALSE, err |-> e]

\* flips bit i (0 = least significant) of the natural number n
XorBit(n, i) == IF (n \div (2 ^ i)) % 2 = 1 THEN n - 2 ^ i ELSE n + 2 ^ i
\* flips bit i (1-based) of the bit string s
FlipAt(s, i) == [s EXCEPT ![i] = 1 - s[i]]

----------------------------------------------------------------------------
(* darkbio_crypto::xdsa — composite signature keys (external crate) *)

darkbio_xdsa_SecretKeys == {[alg |-> "xdsa", secret |-> i] : i \in KeyIds}
darkbio_xdsa_public_key(sk) == [alg |-> "xdsa", public |-> sk.secret]
darkbio_xdsa_PublicKeys == {darkbio_xdsa_public_key(sk) : sk \in darkbio_xdsa_SecretKeys}
\* a one-way digest of the public encoding; distinct keys have distinct digests
darkbio_xdsa_fingerprint(pk) == <<pk.public>>
\* an ideal signature: names the signing key and the signed message;
\* intact = its bytes are the ones sign() returned
darkbio_xdsa_sign(sk, message) == [by |-> sk.secret, over |-> message, intact |-> TRUE]
darkbio_xdsa_verify(pk, message, sig) ==
    sig.intact /\ sig.by = pk.public /\ sig.over = message

----------------------------------------------------------------------------
(* rust/src/api/xdsa.rs — opaque handles around the crate's keys *)

XdsaSecretKey(inner) == [inner |-> inner]
XdsaPublicKey(inner) == [inner |-> inner]
XdsaFingerprint(inner) == [inner |-> inner]

XdsaSecretKeys == {XdsaSecretKey(k) : k \in darkbio_xdsa_SecretKeys}
XdsaPublicKeys == {XdsaPublicKey(k) : k \in darkbio_xdsa_PublicKeys}

XdsaSecretKey_public_key(self) == XdsaPublicKey(darkbio_xdsa_public_key(self.inner))
XdsaPublicKey_fingerprint(self) == XdsaFingerprint(darkbio_xdsa_fingerprint(self.inner))
XdsaSecretKey_fingerprint(self) ==
    XdsaFingerprint(darkbio_xdsa_fingerprint(darkbio_xdsa_public_key(self.inner)))

----------------------------------------------------------------------------
(* darkbio_crypto::cbor::Raw — a newtype around already-encoded bytes *)

Raw(bytes) == [raw |-> bytes]

----------------------------------------------------------------------------
(* darkbio_crypto::cose — the signed envelope (COSE_Sign1), external crate *)

\* the payload slot of the structure: a byte string, or the detached placeholder
Embedded(bytes) == [present |-> TRUE, bytes |-> bytes]
Detached == [present |-> FALSE, bytes |-> <<>>]

\* what the signature covers: protected header, embedded-or-empty payload,
\* external aad, domain separator (canonical encoding: an injective tuple)
SigStructure(protected, payload, aad, domain) ==
    <<"Signature1", protected, payload, aad, domain>>

darkbio_cose_sign1(slot, aad, signer, domain, clock) ==
    LET protected == [alg |-> "xdsa",
                      kid |-> darkbio_xdsa_fingerprint(darkbio_xdsa_public_key(signer)),
                      ts |-> clock]
    IN  [shape |-> "sign1", wellformed |-> TRUE, protected |-> protected,
         payload |-> slot,
         sig |-> darkbio_xdsa_sign(signer, SigStructure(protected, slot.bytes, aad, domain))]

darkbio_cose_sign(msg_to_embed, msg_to_auth, signer, domain, clock) ==
    darkbio_cose_sign1(Embedded(msg_to_embed.raw), msg_to_auth.raw, signer, domain, clock)

darkbio_cose_sign_detached(msg_to_auth, signer, domain, clock) ==
    darkbio_cose_sign1(Detached, msg_to_auth.raw, signer, domain, clock)

\* strict canonical decoding of a COSE_Sign1
DecodesAsSign1(bytes) == bytes.shape = "sign1" /\ bytes.wellformed

AbsDiff(a, b) == IF a >= b THEN a - b ELSE b - a

\* the checks shared by verify and verify_detached, after decoding
darkbio_cose_check_sign1(s, aad, verifier, domain, max_drift, clock) ==
    IF s.protected.alg # "xdsa" THEN Err("unexpected algorithm")
    ELSE IF ~darkbio_xdsa_verify(verifier,
                SigStructure(s.protected, s.payload.bytes, aad, domain), s.sig)
         THEN Err("signature verification failed")
    ELSE IF max_drift.some /\ AbsDiff(clock, s.protected.ts) > max_drift.v
         THEN Err("signature stale")
    ELSE Ok(Raw(s.payload.bytes))

darkbio_cose_verify(bytes, msg_to_auth, verifier, domain, max_drift, clock) ==
    IF ~DecodesAsSign1(bytes) THEN Err("cbor decode error")
    ELSE IF ~bytes.payload.present THEN Err("missing payload")
    ELSE darkbio_cose_check_sign1(bytes, msg_to_auth.raw, verifier, domain, max_drift, clock)

darkbio_cose_verify_detached(bytes, msg_to_auth, verifier, domain, max_drift, clock) ==
    IF ~DecodesAsSign1(bytes) THEN Err("cbor decode error")
    ELSE IF bytes.payload.present THEN Err("unexpected payload")
    ELSE LET r == darkbio_cose_check_sign1(bytes, msg_to_auth.raw, verifier, domain,
                                           max_drift, clock)
         IN  IF r.ok THEN Ok(<<>>) ELSE r

darkbio_cose_signer(bytes) ==
    IF ~DecodesAsSign1(bytes) THEN Err("cbor decode error")
    ELSE Ok(bytes.protected.kid)

darkbio_cose_peek(bytes) ==
    IF ~DecodesAsSign1(bytes) THEN Err("cbor decode error")
    ELSE IF ~bytes.payload.present THEN Err("missing payload")
    ELSE Ok(Raw(bytes.payload.bytes))

----------------------------------------------------------------------------
(* rust/src/api/cose.rs — the exported functions *)

\* faulty variant: the two byte vectors are passed in the wrong order
cose_sign_swapped(msg_to_embed, msg_to_auth, signer, domain, clock) ==
    darkbio_cose_sign(Raw(msg_to_auth), Raw(msg_to_embed), signer.inner, domain, clock)

cose_sign(msg_to_embed, msg_to_auth, signer, domain, clock) ==
    darkbio_cose_sign(Raw(msg_to_embed), Raw(msg_to_auth), signer.inner, domain, clock)

cose_sign_detached(msg_to_auth, signer, domain, clock) ==
    darkbio_cose_sign_detached(Raw(msg_to_auth), signer.inner, domain, clock)

\* faulty variant: the payload is extracted without the verification call
cose_verify_peeks(msg_to_check, msg_to_auth, verifier, domain, max_drift_secs, clock) ==
    LET r == darkbio_cose_peek(msg_to_check)
    IN  IF r.ok THEN Ok(r.val.raw) ELSE Err(r.err)

\* faulty variant: aad and domain are passed in the wrong order
cose_verify_swapped(msg_to_check, msg_to_auth, verifier, domain, max_drift_secs, clock) ==
    LET r == darkbio_cose_verify(msg_to_check, Raw(domain), verifier.inner,
                                 msg_to_auth, max_drift_secs, clock)
    IN  IF r.ok THEN Ok(r.val.raw) ELSE Err(r.err)

\* faulty variant: the drift bound is not passed on
cose_verify_nodrift(msg_to_check, msg_to_auth, verifier, domain, max_drift_secs, clock) ==
    LET r == darkbio_cose_verify(msg_to_check, Raw(msg_to_auth), verifier.inner,
                                 domain, None, clock)
    IN  IF r.ok THEN Ok(r.val.raw) ELSE Err(r.err)

\* faulty variant: an absent drift bound is taken as a bound of zero
cose_verify_zero_default(msg_to_check, msg_to_auth, verifier, domain, max_drift_secs, clock) ==
    LET r == darkbio_cose_verify(msg_to_check, Raw(msg_to_auth), verifier.inner, domain,
                                 IF max_drift_secs.some THEN max_drift_secs ELSE Some(0),
                                 clock)
    IN  IF r.ok THEN Ok(r.val.raw) ELSE Err(r.err)

cose_verify(msg_to_check, msg_to_auth, verifier, domain, max_drift_secs, clock) ==
    LET r == darkbio_cose_verify(msg_to_check, Raw(msg_to_auth), verifier.inner,
                                 domain, max_drift_secs, clock)
    IN  IF r.ok THEN Ok(r.val.raw) ELSE Err(r.err)

\* faulty variant: the drift bound is not passed on
cose_verify_detached_nodrift(msg_to_check, msg_to_auth, verifier, domain, max_drift_secs, clock) ==
    LET r == darkbio_cose_verify_detached(msg_to_check, Raw(msg_to_auth), verifier.inner,
                                          domain, None, clock)
    IN  IF r.ok THEN Ok(<<>>) ELSE Err(r.err)

cose_verify_detached(msg_to_check, msg_to_auth, verifier, domain, max_drift_secs, clock) ==
    LET r == darkbio_cose_verify_detached(msg_to_check, Raw(msg_to_auth), verifier.inner,
                                          domain, max_drift_secs, clock)
    IN  IF r.ok THEN Ok(<<>>) ELSE Err(r.err)

cose_signer(signature) ==
    LET r == darkbio_cose_signer(signature)
    IN  IF r.ok THEN Ok(XdsaFingerprint(r.val)) ELSE Err(r.err)

\* faulty variant: the header's key id is returned in place of the payload
cose_peek_kid(signature) ==
    LET r == darkbio_cose_signer(signature)
    IN  IF r.ok THEN Ok(r.val) ELSE Err(r.err)

cose_peek(signature) ==
    LET r == darkbio_cose_peek(signature)
    IN  IF r.ok THEN Ok(r.val.raw) ELSE Err(r.err)

----------------------------------------------------------------------------
(* darkbio_crypto::xhpke — hybrid encryption keys (external crate) *)

darkbio_xhpke_SecretKeys == {[alg |-> "xhpke", secret |-> i] : i \in KeyIds}
darkbio_xhpke_public_key(sk) == [alg |-> "xhpke", public |-> sk.secret]
darkbio_xhpke_PublicKeys == {darkbio_xhpke_public_key(sk) : sk \in darkbio_xhpke_SecretKeys}
darkbio_xhpke_fingerprint(pk) == <<pk.public>>

\* the values the random source can return; one seal() draws one of them
\* for its key encapsulation
Nonces == {0, 1}

\* an ideal KEM + AEAD: the session key names the key it was encapsulated to,
\* the ciphertext names the session, the bound aad and domain, and the plaintext
darkbio_xhpke_seal(pk, msg_to_seal, msg_to_auth, domain, rnd) ==
    <<[to |-> pk.public, eph |-> rnd, intact |-> TRUE],
      [sess |-> <<pk.public, rnd>>, pt |-> msg_to_seal, aad |-> msg_to_auth,
       domain |-> domain, intact |-> TRUE]>>

darkbio_xhpke_open(sk, session_key, msg_to_open, msg_to_auth, domain) ==
    IF /\ session_key.intact
       /\ session_key.to = sk.secret
       /\ msg_to_open.intact
       /\ msg_to_open.sess = <<session_key.to, session_key.eph>>
       /\ msg_to_open.aad = msg_to_auth
       /\ msg_to_open.domain = domain
    THEN Ok(msg_to_open.pt)
    ELSE Err("decryption failed")

----------------------------------------------------------------------------
(* rust/src/api/xhpke.rs — opaque handles around the crate's keys *)

XhpkeSecretKey(inner) == [inner |-> inner]
XhpkePublicKey(inner) == [inner |-> inner]
XhpkeFingerprint(inner) == [inner |-> inner]

XhpkeSecretKeys == {XhpkeSecretKey(k) : k \in darkbio_xhpke_SecretKeys}
XhpkePublicKeys == {XhpkePublicKey(k) : k \in darkbio_xhpke_PublicKeys}

XhpkeSecretKey_public_key(self) == XhpkePublicKey(darkbio_xhpke_public_key(self.inner))
XhpkePublicKey_fingerprint(self) == XhpkeFingerprint(darkbio_xhpke_fingerprint(self.inner))

----------------------------------------------------------------------------
(* darkbio_crypto::cose — the encrypted envelope (COSE_Encrypt0), external crate *)

\* what the AEAD authenticates besides the ciphertext: protected header and aad
EncStructure(protected, aad) == <<"Encrypt0", protected, aad>>

darkbio_cose_encrypt(sign1, msg_to_auth, recipient, domain, rnd) ==
    LET protected == [alg |-> "xhpke", kid |-> darkbio_xhpke_fingerprint(recipient)]
        sealed == darkbio_xhpke_seal(recipient, sign1,
                                     EncStructure(protected, msg_to_auth.raw), domain, rnd)
    IN  Ok([shape |-> "encrypt0", wellformed |-> TRUE, protected |-> protected,
            encap |-> sealed[1], ct |-> sealed[2]])

DecodesAsEncrypt0(bytes) == bytes.shape = "encrypt0" /\ bytes.wellformed

darkbio_cose_decrypt(bytes, msg_to_auth, recipient, domain) ==
    IF ~DecodesAsEncrypt0(bytes) THEN Err("cbor decode error")
    ELSE IF bytes.protected.alg # "xhpke" THEN Err("unexpected algorithm")
    ELSE IF bytes.protected.kid # darkbio_xhpke_fingerprint(darkbio_xhpke_public_key(recipient))
         THEN Err("unexpected recipient")
    ELSE darkbio_xhpke_open(recipient, bytes.encap, bytes.ct,
                            EncStructure(bytes.protected, msg_to_auth.raw), domain)

darkbio_cose_recipient(bytes) ==
    IF ~DecodesAsEncrypt0(bytes) THEN Err("cbor decode error")
    ELSE Ok(bytes.protected.kid)

\* sign followed by encrypt, the same aad and domain for both layers
darkbio_cose_seal(msg_to_seal, msg_to_auth, signer, recipient, domain, clock, rnd) ==
    darkbio_cose_encrypt(darkbio_cose_sign(msg_to_seal, msg_to_auth, signer, domain, clock),
                         msg_to_auth, recipient, domain, rnd)

\* decrypt followed by verify; a failure of either stage is the call's failure
darkbio_cose_open(bytes, msg_to_auth, recipient, sender, domain, max_drift, clock) ==
    LET s == darkbio_cose_decrypt(bytes, msg_to_auth, recipient, domain)
    IN  IF ~s.ok THEN s
        ELSE darkbio_cose_verify(s.val, msg_to_auth, sender, domain, max_drift, clock)

----------------------------------------------------------------------------
(* rust/src/api/cose.rs — the exported functions, encryption layer *)

\* faulty variant: the signer's fingerprint is asked for
cose_recipient_signer(ciphertext) ==
    LET r == darkbio_cose_signer(ciphertext)
    IN  IF r.ok THEN Ok(XhpkeFingerprint(r.val)) ELSE Err(r.err)

cose_recipient(ciphertext) ==
    LET r == darkbio_cose_recipient(ciphertext)
    IN  IF r.ok THEN Ok(XhpkeFingerprint(r.val)) ELSE Err(r.err)

\* faulty variant: aad and domain are passed in the wrong order
cose_encrypt_swapped(sign1, msg_to_auth, recipient, domain, rnd) ==
    LET r == darkbio_cose_encrypt(sign1, Raw(domain), recipient.inner, msg_to_auth, rnd)
    IN  IF r.ok THEN Ok(r.val) ELSE Err(r.err)

cose_encrypt(sign1, msg_to_auth, recipient, domain, rnd) ==
    LET r == darkbio_cose_encrypt(sign1, Raw(msg_to_auth), recipient.inner, domain, rnd)
    IN  IF r.ok THEN Ok(r.val) ELSE Err(r.err)

cose_decrypt(msg_to_open, msg_to_auth, recipient, domain) ==
    LET r == darkbio_cose_decrypt(msg_to_open, Raw(msg_to_auth), recipient.inner, domain)
    IN  IF r.ok THEN Ok(r.val) ELSE Err(r.err)

\* faulty variant: aad and domain are passed in the wrong order
cose_seal_swapped(msg_to_seal, msg_to_auth, signer, recipient, domain, clock, rnd) ==
    LET r == darkbio_cose_seal(Raw(msg_to_seal), Raw(domain), signer.inner,
                               recipient.inner, msg_to_auth, clock, rnd)
    IN  IF r.ok THEN Ok(r.val) ELSE Err(r.err)

cose_seal(msg_to_seal, msg_to_auth, signer, recipient, domain, clock, rnd) ==
    LET r == darkbio_cose_seal(Raw(msg_to_seal), Raw(msg_to_auth), signer.inner,
                               recipient.inner, domain, clock, rnd)
    IN  IF r.ok THEN Ok(r.val) ELSE Err(r.err)

\* faulty variant: the drift bound is not passed on
cose_open_nodrift(msg_to_open, msg_to_auth, recipient, sender, domain, max_drift_secs, clock) ==
    LET r == darkbio_cose_open(msg_to_open, Raw(msg_to_auth), recipient.inner,
                               sender.inner, domain, None, clock)
    IN  IF r.ok THEN Ok(r.val.raw) ELSE Err(r.err)

cose_open(msg_to_open, msg_to_auth, recipient, sender, domain, max_drift_secs, clock) ==
    LET r == darkbio_cose_open(msg_to_open, Raw(msg_to_auth), recipient.inner,
                               sender.inner, domain, max_drift_secs, clock)
    IN  IF r.ok THEN Ok(r.val.raw) ELSE Err(r.err)

----------------------------------------------------------------------------
(* darkbio_crypto::stream — the STREAM construction (external crate):
   chunks of ChunkSize plaintext bytes, each sealed under the nonce
   (counter, last-chunk flag) *)

ChunkSize == 2

\* an ideal AEAD chunk: names the key and the nonce it was sealed under
darkbio_stream_encrypt_chunk(key, counter, last, data) ==
    [key |-> key, counter |-> counter, last |-> last, data |-> data, intact |-> TRUE]

darkbio_stream_chunk_opens(key, counter, last, c) ==
    c.intact /\ c.key = key /\ c.counter = counter /\ c.last = last

\* Stream::encrypt(key, &mut ciphertext): a writer with an empty chunk buffer
darkbio_stream_Stream_encrypt(payload_key) ==
    [key |-> payload_key, counter |-> 0, chunk |-> <<>>, inner |-> <<>>]

\* write_all: fills the chunk buffer; a full chunk is sealed and written out
\* only when more data follows, the last chunk is left to finish()
RECURSIVE darkbio_stream_write_all(_, _)
darkbio_stream_write_all(w, buf) ==
    IF buf = <<>> THEN w
    ELSE LET room == ChunkSize - Len(w.chunk)
             to_write == IF room < Len(buf) THEN room ELSE Len(buf)
             chunk == w.chunk \o SubSeq(buf, 1, to_write)
             rest == SubSeq(buf, to_write + 1, Len(buf))
         IN  IF rest # <<>>
             THEN darkbio_stream_write_all(
                      [w EXCEPT !.inner = Append(@, darkbio_stream_encrypt_chunk(
                                                        w.key, w.counter, FALSE, chunk)),
                                !.counter = @ + 1,
                                !.chunk = <<>>],
                      rest)
             ELSE [w EXCEPT !.chunk = chunk]

\* finish: seals what the buffer holds (possibly nothing) as the last chunk
darkbio_stream_finish(w) ==
    Append(w.inner, darkbio_stream_encrypt_chunk(w.key, w.counter, TRUE, w.chunk))

\* read_to_end on Stream::decrypt(key, ciphertext): appends to buf the
\* plaintext of each chunk that authenticates; returns the buffer as it is
\* when the call ends and the error, if any.  A chunk shorter than a full
\* one is taken as the last; a full one is tried as a middle chunk first
\* and, when that fails, as the last.
RECURSIVE darkbio_stream_read_chunks(_, _, _, _, _, _)
darkbio_stream_read_chunks(key, chunks, i, counter, complete, buf) ==
    IF i > Len(chunks)
    THEN IF complete THEN [ok |-> TRUE, buf |-> buf, err |-> ""]
         ELSE [ok |-> FALSE, buf |-> buf, err |-> "stream is truncated"]
    ELSE LET c == chunks[i]
             short == Len(c.data) < ChunkSize
             as_middle == ~short /\ darkbio_stream_chunk_opens(key, counter, FALSE, c)
             as_last == darkbio_stream_chunk_opens(key, counter, TRUE, c)
         IN  IF complete
             THEN [ok |-> FALSE, buf |-> buf, err |-> "last chunk has been processed"]
             ELSE IF short /\ i < Len(chunks)
             THEN [ok |-> FALSE, buf |-> buf, err |-> "decryption error"]
             ELSE IF ~as_middle /\ ~as_last
             THEN [ok |-> FALSE, buf |-> buf, err |-> "decryption error"]
             ELSE IF c.data = <<>> /\ buf # <<>>
             THEN [ok |-> FALSE, buf |-> buf, err |-> "last chunk is empty"]
             ELSE darkbio_stream_read_chunks(key, chunks, i + 1, counter + 1,
                                             ~as_middle, buf \o c.data)

darkbio_stream_read_to_end(payload_key, ciphertext) ==
    darkbio_stream_read_chunks(payload_key, ciphertext, 1, 0, FALSE, <<>>)

----------------------------------------------------------------------------
(* rust/src/api/stream.rs *)

KeyLen == 32

\* faulty variant: the writer is dropped without finish()
stream_encrypt_nofinish(key, plaintext) ==
    IF Len(key) # KeyLen THEN Err("Invalid key length, expected 32 bytes")
    ELSE Ok(darkbio_stream_write_all(darkbio_stream_Stream_encrypt(key), plaintext).inner)

\* faulty variant: the second half of the plaintext goes through a writer
\* of its own, created with the same key
stream_encrypt_restart(key, plaintext) ==
    IF Len(key) # KeyLen THEN Err("Invalid key length, expected 32 bytes")
    ELSE LET half == Len(plaintext) \div 2
             first == darkbio_stream_write_all(darkbio_stream_Stream_encrypt(key),
                                               SubSeq(plaintext, 1, half))
             second == darkbio_stream_write_all(darkbio_stream_Stream_encrypt(key),
                                                SubSeq(plaintext, half + 1, Len(plaintext)))
         IN  Ok(darkbio_stream_finish(first) \o darkbio_stream_finish(second))

stream_encrypt(key, plaintext) ==
    IF Len(key) # KeyLen THEN Err("Invalid key length, expected 32 bytes")
    ELSE LET writer == darkbio_stream_Stream_encrypt(key)
             written == darkbio_stream_write_all(writer, plaintext)
         IN  Ok(darkbio_stream_finish(written))

\* faulty variant: the end of the input is taken as the end of the stream
stream_decrypt_lenient(key, ciphertext) ==
    IF Len(key) # KeyLen THEN Err("Invalid key length, expected 32 bytes")
    ELSE LET r == darkbio_stream_read_to_end(key, ciphertext)
         IN  IF r.ok \/ r.err = "stream is truncated" THEN Ok(r.buf)
             ELSE Err("Decryption error")

\* faulty variant: what was read before the error is handed to the caller
stream_decrypt_partial(key, ciphertext) ==
    IF Len(key) # KeyLen THEN Err("Invalid key length, expected 32 bytes")
    ELSE LET r == darkbio_stream_read_to_end(key, ciphertext)
         IN  IF r.ok \/ r.buf # <<>> THEN Ok(r.buf) ELSE Err("Decryption error")

stream_decrypt(key, ciphertext) ==
    IF Len(key) # KeyLen THEN Err("Invalid key length, expected 32 bytes")
    ELSE LET r == darkbio_stream_read_to_end(key, ciphertext)
         IN  IF r.ok THEN Ok(r.buf) ELSE Err("Decryption error")

\* a buffer that held key bytes, as the call leaves it: dropped (freed or
\* left in the returning frame) with its bytes in place, or overwritten
Dropped(bytes) == [bytes |-> bytes, overwritten |-> FALSE]
Zeroized(bytes) == [bytes |-> [i \in 1..Len(bytes) |-> 0], overwritten |-> TRUE]

\* the buffers stream_encrypt has put key bytes in, when it returns:
\* key, the caller's vector, is consumed by try_into, which on a wrong
\* length hands it back inside the error that map_err discards, and
\* otherwise copies it to key_array and frees it; key_array is copied into
\* the PayloadKey; the PayloadKey belongs to the library's writer
stream_encrypt_buffers(key, plaintext) ==
    IF Len(key) # KeyLen THEN [key |-> Dropped(key)]
    ELSE [key |-> Dropped(key), key_array |-> Dropped(key),
          payload_key |-> Zeroized(key)]

\* the same three buffers in stream_decrypt
stream_decrypt_buffers(key, ciphertext) ==
    IF Len(key) # KeyLen THEN [key |-> Dropped(key)]
    ELSE [key |-> Dropped(key), key_array |-> Dropped(key),
          payload_key |-> Zeroized(key)]

\* keys of the right length and of the lengths next to it
StreamKeys ==
    {[i \in 1..n |-> b] : n \in {KeyLen - 1, KeyLen, KeyLen + 1}, b \in Bit}

\* every plaintext of up to ChunkSize + 1 bytes, and two of 10 * ChunkSize
Plaintexts ==
    BitStrings(ChunkSize + 1)
      \cup {[i \in 1..(10 * ChunkSize) |-> b] : b \in Bit}
      \cup {[i \in 1..(10 * ChunkSize) |-> i % 2]}

----------------------------------------------------------------------------
(* darkbio_crypto::x509 — certificates (external crate): the subject's
   public key and the parameters, signed by the issuer's xDSA secret key,
   encoded as DER or as PEM *)

darkbio_x509_Params(subject_name, issuer_name, not_before, not_after, is_ca, path_len) ==
    [subject_name |-> subject_name, issuer_name |-> issuer_name,
     not_before |-> not_before, not_after |-> not_after,
     is_ca |-> is_ca, path_len |-> path_len]

\* the fields the issuer's signature covers
darkbio_x509_tbs(subject, params) == [subject |-> subject, params |-> params]

darkbio_x509_issue(subject, signer, params, encoding) ==
    IF params.not_before > params.not_after
    THEN Err("invalid validity period")
    ELSE Ok([shape |-> "cert", wellformed |-> TRUE, encoding |-> encoding,
             tbs |-> darkbio_x509_tbs(subject, params),
             sig |-> darkbio_xdsa_sign(signer, darkbio_x509_tbs(subject, params))])

\* parsing alone: the subject key of the expected algorithm and the window
darkbio_x509_parse(cert, alg, encoding) ==
    IF cert.shape # "cert" \/ ~cert.wellformed \/ cert.encoding # encoding
    THEN Err("malformed certificate")
    ELSE IF cert.tbs.subject.alg # alg
    THEN Err("unexpected subject key algorithm")
    ELSE Ok(<<cert.tbs.subject, cert.tbs.params.not_before, cert.tbs.params.not_after>>)

\* parsing, then the issuer's signature over the remaining fields; the
\* window is returned, not compared with the clock
darkbio_x509_verify(cert, alg, encoding, signer) ==
    LET p == darkbio_x509_parse(cert, alg, encoding)
    IN  IF ~p.ok THEN p
        ELSE IF ~darkbio_xdsa_verify(signer, cert.tbs, cert.sig)
        THEN Err("certificate signature verification failed")
        ELSE p

darkbio_xdsa_to_cert_der(pk, signer, params) == darkbio_x509_issue(pk, signer, params, "der")
darkbio_xdsa_to_cert_pem(pk, signer, params) == darkbio_x509_issue(pk, signer, params, "pem")
darkbio_xdsa_from_cert_der(der, signer) == darkbio_x509_verify(der, "xdsa", "der", signer)
darkbio_xdsa_from_cert_pem(pem, signer) == darkbio_x509_verify(pem, "xdsa", "pem", signer)
darkbio_xdsa_parse_cert_der(der, signer) == darkbio_x509_parse(der, "xdsa", "der")

darkbio_xhpke_to_cert_der(pk, signer, params) == darkbio_x509_issue(pk, signer, params, "der")
darkbio_xhpke_to_cert_pem(pk, signer, params) == darkbio_x509_issue(pk, signer, params, "pem")
darkbio_xhpke_from_cert_der(der, signer) == darkbio_x509_verify(der, "xhpke", "der", signer)
darkbio_xhpke_from_cert_pem(pem, signer) == darkbio_x509_verify(pem, "xhpke", "pem", signer)
darkbio_xhpke_parse_cert_der(der, signer) == darkbio_x509_parse(der, "xhpke", "der")

----------------------------------------------------------------------------
(* rust/src/api/xdsa.rs, rust/src/api/xhpke.rs — certificates *)

\* faulty variant: the two ends of the validity period change places
XdsaPublicKey_to_cert_der_swapped(self, signer, subject_name, issuer_name, not_before, not_after, is_ca, path_len) ==
    LET params == darkbio_x509_Params(subject_name, issuer_name, not_after, not_before,
                                      is_ca, path_len)
    IN  darkbio_xdsa_to_cert_der(self.inner, signer.inner, params)

XdsaPublicKey_to_cert_der(self, signer, subject_name, issuer_name, not_before, not_after, is_ca, path_len) ==
    LET params == darkbio_x509_Params(subject_name, issuer_name, not_before, not_after,
                                      is_ca, path_len)
    IN  darkbio_xdsa_to_cert_der(self.inner, signer.inner, params)

XdsaPublicKey_to_cert_pem(self, signer, subject_name, issuer_name, not_before, not_after, is_ca, path_len) ==
    LET params == darkbio_x509_Params(subject_name, issuer_name, not_before, not_after,
                                      is_ca, path_len)
    IN  darkbio_xdsa_to_cert_pem(self.inner, signer.inner, params)

\* faulty variant: the two timestamps are returned in the other order
XdsaPublicKey_from_cert_der_swapped(der, signer) ==
    LET r == darkbio_xdsa_from_cert_der(der, signer.inner)
    IN  IF r.ok THEN Ok(<<XdsaPublicKey(r.val[1]), r.val[3], r.val[2]>>) ELSE Err(r.err)

XdsaPublicKey_from_cert_der(der, signer) ==
    LET r == darkbio_xdsa_from_cert_der(der, signer.inner)
    IN  IF r.ok THEN Ok(<<XdsaPublicKey(r.val[1]), r.val[2], r.val[3]>>) ELSE Err(r.err)

XdsaPublicKey_from_cert_pem(pem, signer) ==
    LET r == darkbio_xdsa_from_cert_pem(pem, signer.inner)
    IN  IF r.ok THEN Ok(<<XdsaPublicKey(r.val[1]), r.val[2], r.val[3]>>) ELSE Err(r.err)

XhpkePublicKey_to_cert_der(self, signer, subject_name, issuer_name, not_before, not_after, is_ca, path_len) ==
    LET params == darkbio_x509_Params(subject_name, issuer_name, not_before, not_after,
                                      is_ca, path_len)
    IN  darkbio_xhpke_to_cert_der(self.inner, signer.inner, params)

XhpkePublicKey_to_cert_pem(self, signer, subject_name, issuer_name, not_before, not_after, is_ca, path_len) ==
    LET params == darkbio_x509_Params(subject_name, issuer_name, not_before, not_after,
                                      is_ca, path_len)
    IN  darkbio_xhpke_to_cert_pem(self.inner, signer.inner, params)

\* faulty variant: the certificate is parsed and its signature is not checked
XhpkePublicKey_from_cert_der_unchecked(der, signer) ==
    LET r == darkbio_xhpke_parse_cert_der(der, signer.inner)
    IN  IF r.ok THEN Ok(<<XhpkePublicKey(r.val[1]), r.val[2], r.val[3]>>) ELSE Err(r.err)

XhpkePublicKey_from_cert_der(der, signer) ==
    LET r == darkbio_xhpke_from_cert_der(der, signer.inner)
    IN  IF r.ok THEN Ok(<<XhpkePublicKey(r.val[1]), r.val[2], r.val[3]>>) ELSE Err(r.err)

XhpkePublicKey_from_cert_pem(pem, signer) ==
    LET r == darkbio_xhpke_from_cert_pem(pem, signer.inner)
    IN  IF r.ok THEN Ok(<<XhpkePublicKey(r.val[1]), r.val[2], r.val[3]>>) ELSE Err(r.err)

\* the names and the CA settings certificates are issued with
SubjectNames == {"subject"}
IssuerNames == {"issuer"}
CaOpts == {<<FALSE, None>>, <<TRUE, None>>, <<TRUE, Some(0)>>}

----------------------------------------------------------------------------
(* Fixed-length byte encodings: darkbio_crypto's from_bytes constructors
   (external crate) and the length checks in front of them in
   rust/src/api/xdsa.rs and rust/src/api/xhpke.rs *)

\* the constructors take an array of the exact length; the public keys are
\* validated, the other types accept any bytes
darkbio_xdsa_SecretKey_from_bytes(seed) == [alg |-> "xdsa", secret |-> seed[1]]
darkbio_xdsa_PublicKey_from_bytes(bytes) ==
    IF bytes[1] \in KeyIds THEN Ok([alg |-> "xdsa", public |-> bytes[1]])
    ELSE Err("invalid public key encoding")
darkbio_xdsa_Signature_from_bytes(bytes) == [by |-> bytes[1], over |-> <<>>, intact |-> TRUE]
darkbio_xdsa_Fingerprint_from_bytes(bytes) == <<bytes[1]>>
darkbio_xhpke_SecretKey_from_bytes(seed) == [alg |-> "xhpke", secret |-> seed[1]]
darkbio_xhpke_PublicKey_from_bytes(bytes) ==
    IF bytes[1] \in KeyIds THEN Ok([alg |-> "xhpke", public |-> bytes[1]])
    ELSE Err("invalid public key encoding")
darkbio_xhpke_Fingerprint_from_bytes(bytes) == <<bytes[1]>>

XdsaSecretKeyLen == 64
XdsaPublicKeyLen == 1984
XdsaSignatureLen == 3373
XdsaFingerprintLen == 32
XhpkeSecretKeyLen == 32
XhpkePublicKeyLen == 1216
XhpkeSessionKeyLen == 1120
XhpkeFingerprintLen == 32

XdsaSignature(inner) == [inner |-> inner]

\* faulty variant: a longer input is accepted and its first 64 bytes are used
XdsaSecretKey_from_bytes_prefix(bytes) ==
    IF Len(bytes) < XdsaSecretKeyLen THEN Err("Invalid key length, expected 64 bytes")
    ELSE Ok(XdsaSecretKey(darkbio_xdsa_SecretKey_from_bytes(SubSeq(bytes, 1, XdsaSecretKeyLen))))

XdsaSecretKey_from_bytes(bytes) ==
    IF Len(bytes) # XdsaSecretKeyLen THEN Err("Invalid key length, expected 64 bytes")
    ELSE Ok(XdsaSecretKey(darkbio_xdsa_SecretKey_from_bytes(bytes)))

XdsaPublicKey_from_bytes(bytes) ==
    IF Len(bytes) # XdsaPublicKeyLen THEN Err("Invalid key length, expected 1984 bytes")
    ELSE LET r == darkbio_xdsa_PublicKey_from_bytes(bytes)
         IN  IF r.ok THEN Ok(XdsaPublicKey(r.val)) ELSE Err(r.err)

XdsaSignature_from_bytes(bytes) ==
    IF Len(bytes) # XdsaSignatureLen
    THEN Err("Invalid signature length, expected 3373 bytes")
    ELSE Ok(XdsaSignature(darkbio_xdsa_Signature_from_bytes(bytes)))

XdsaFingerprint_from_bytes(bytes) ==
    IF Len(bytes) # XdsaFingerprintLen
    THEN Err("Invalid fingerprint length, expected 32 bytes")
    ELSE Ok(XdsaFingerprint(darkbio_xdsa_Fingerprint_from_bytes(bytes)))

XhpkeSecretKey_from_bytes(bytes) ==
    IF Len(bytes) # XhpkeSecretKeyLen THEN Err("Invalid key length, expected 32 bytes")
    ELSE Ok(XhpkeSecretKey(darkbio_xhpke_SecretKey_from_bytes(bytes)))

XhpkePublicKey_from_bytes(bytes) ==
    IF Len(bytes) # XhpkePublicKeyLen THEN Err("Invalid key length, expected 1216 bytes")
    ELSE LET r == darkbio_xhpke_PublicKey_from_bytes(bytes)
         IN  IF r.ok THEN Ok(XhpkePublicKey(r.val)) ELSE Err(r.err)

XhpkeFingerprint_from_bytes(bytes) ==
    IF Len(bytes) # XhpkeFingerprintLen
    THEN Err("Invalid fingerprint length, expected 32 bytes")
    ELSE Ok(XhpkeFingerprint(darkbio_xhpke_Fingerprint_from_bytes(bytes)))

\* the encapsulated session key as the 1120 bytes seal() returns and
\* open() takes: the key it was encapsulated to, the sender's ephemeral
\* share, and the rest of the encapsulation
darkbio_xhpke_session_key_to_bytes(session_key) ==
    [i \in 1..XhpkeSessionKeyLen |->
        IF i = 1 THEN session_key.to ELSE IF i = 2 THEN session_key.eph ELSE 0]
darkbio_xhpke_session_key_of_bytes(bytes) ==
    [to |-> bytes[1], eph |-> bytes[2], intact |-> \A i \in 3..Len(bytes) : bytes[i] = 0]

XhpkePublicKey_seal(self, msg_to_seal, msg_to_auth, domain, rnd) ==
    LET r == darkbio_xhpke_seal(self.inner, msg_to_seal, msg_to_auth, domain, rnd)
    IN  Ok(<<darkbio_xhpke_session_key_to_bytes(r[1]), r[2]>>)

XhpkeSecretKey_open(self, session_key, msg_to_open, msg_to_auth, domain) ==
    IF Len(session_key) # XhpkeSessionKeyLen
    THEN Err("Invalid session key length, expected 1120 bytes")
    ELSE darkbio_xhpke_open(self.inner, darkbio_xhpke_session_key_of_bytes(session_key),
                            msg_to_open, msg_to_auth, domain)

\* the values of a byte in the inputs: two that encode keys and one that
\* does not
ByteVals == {0, 1, 2}

\* inputs of the expected length n, of the lengths next to it, and empty
ByteInputs(n) == {[i \in 1..m |-> b] : m \in {0, n - 1, n, n + 1}, b \in ByteVals}

----------------------------------------------------------------------------
(* The bytes in transit: one bit of an envelope may be flipped *)

NoMsg == [shape |-> "none", wellformed |-> FALSE]
NoRes == [op |-> "none"]

\* the bit positions of a signed envelope
Sign1Positions(s) ==
    {<<"frame", 0>>, <<"alg", 0>>, <<"sig", 0>>}
      \cup {<<"kid", i>> : i \in 1..Len(s.protected.kid)}
      \cup {<<"ts", i>> : i \in {0, 1}}
      \cup {<<"payload", i>> : i \in 1..Len(s.payload.bytes)}

FlipSign1(s, pos) ==
    CASE pos[1] = "frame" -> [s EXCEPT !.wellformed = FALSE]
      [] pos[1] = "alg" -> [s EXCEPT !.protected.alg = "other"]
      [] pos[1] = "sig" -> [s EXCEPT !.sig.intact = FALSE]
      [] pos[1] = "kid" -> [s EXCEPT !.protected.kid = FlipAt(@, pos[2])]
      [] pos[1] = "ts" -> [s EXCEPT !.protected.ts = XorBit(@, pos[2])]
      [] pos[1] = "payload" -> [s EXCEPT !.payload.bytes = FlipAt(@, pos[2])]

\* the bit positions of an encrypted envelope
Encrypt0Positions(e) ==
    {<<"frame", 0>>, <<"alg", 0>>, <<"encap", 0>>, <<"ct", 0>>}
      \cup {<<"kid", i>> : i \in 1..Len(e.protected.kid)}

FlipEncrypt0(e, pos) ==
    CASE pos[1] = "frame" -> [e EXCEPT !.wellformed = FALSE]
      [] pos[1] = "alg" -> [e EXCEPT !.protected.alg = "other"]
      [] pos[1] = "encap" -> [e EXCEPT !.encap.intact = FALSE]
      [] pos[1] = "ct" -> [e EXCEPT !.ct.intact = FALSE]
      [] pos[1] = "kid" -> [e EXCEPT !.protected.kid = FlipAt(@, pos[2])]

----------------------------------------------------------------------------
(* History variable prov: the calls that produced msg.
   path:   "sign" / "sign_detached" / "seal": msg is that call's output;
           "encrypt": cose_encrypt of a cose_sign output;
           "decrypt": cose_decrypt's output; "forward": cose_encrypt of a
           cose_decrypt output (re-encryption to another recipient)
   payload, aad, signer, domain: the arguments of the signing call
   sealed: the chain started with cose_seal; sealedTo: that call's recipient
   encAad, encDomain, recipient: the arguments of the latest encrypting call
   flipped: one bit of msg was flipped after the last call *)

NoKey == [inner |-> [alg |-> "none"]]

Prov(path, payload, aad, signer, domain, sealed, encAad, encDomain, recipient) ==
    [path |-> path, flipped |-> FALSE, payload |-> payload, aad |-> aad,
     signer |-> signer, domain |-> domain, sealed |-> sealed, sealedTo |-> recipient,
     encAad |-> encAad, encDomain |-> encDomain, recipient |-> recipient]

NoProv == Prov("none", <<>>, <<>>, NoKey, <<>>, FALSE, <<>>, <<>>, NoKey)

----------------------------------------------------------------------------
(* Actions: one per exported function, plus the environment.
   The API is synchronous: a call starts when the caller has taken the
   previous call's result (Idle).  A call is made on bytes of the envelope
   type it expects; bytes of the other type fail at decoding. *)

Idle == res.op = "none"

\* the caller drops the previous result
Consume ==
    /\ ~Idle
    /\ res' = NoRes
    /\ UNCHANGED <<now, rng, msg, prov>>

\* the random source moves on to its next value
Reseed ==
    /\ Idle
    /\ \E r \in Nonces : rng' = r /\ r # rng
    /\ UNCHANGED <<now, msg, prov, res>>

\* the clock of the host the next call runs on (hosts' clocks are not synchronised)
SetClock ==
    /\ Idle
    /\ \E t \in Times : now' = t /\ t # now
    /\ UNCHANGED <<rng, msg, prov, res>>

CoseSign ==
    /\ Idle
    /\ \E p \in Payloads, a \in Aads, sk \in XdsaSecretKeys, d \in Domains :
        /\ msg' = cose_sign(p, a, sk, d, now)
        /\ prov' = Prov("sign", p, a, sk, d, FALSE, <<>>, <<>>, NoKey)
    /\ UNCHANGED <<now, rng, res>>

CoseSignDetached ==
    /\ Idle
    /\ \E a \in Aads, sk \in XdsaSecretKeys, d \in Domains :
        /\ msg' = cose_sign_detached(a, sk, d, now)
        /\ prov' = Prov("sign_detached", <<>>, a, sk, d, FALSE, <<>>, <<>>, NoKey)
    /\ UNCHANGED <<now, rng, res>>

TamperSign1 ==
    /\ Idle
    /\ msg.shape = "sign1"
    /\ ~prov.flipped
    /\ \E pos \in Sign1Positions(msg) : msg' = FlipSign1(msg, pos)
    /\ prov' = [prov EXCEPT !.flipped = TRUE]
    /\ UNCHANGED <<now, rng, res>>

TamperEncrypt0 ==
    /\ Idle
    /\ msg.shape = "encrypt0"
    /\ ~prov.flipped
    /\ \E pos \in Encrypt0Positions(msg) : msg' = FlipEncrypt0(msg, pos)
    /\ prov' = [prov EXCEPT !.flipped = TRUE]
    /\ UNCHANGED <<now, rng, res>>

CoseVerify ==
    /\ Idle
    /\ msg.shape = "sign1"
    /\ \E a \in Aads, pk \in XdsaPublicKeys, d \in Domains, drift \in DriftOpts :
        res' = [op |-> "verify", aad |-> a, verifier |-> pk, domain |-> d,
                drift |-> drift, out |-> cose_verify(msg, a, pk, d, drift, now)]
    /\ UNCHANGED <<now, rng, msg, prov>>

CoseVerifyDetached ==
    /\ Idle
    /\ msg.shape = "sign1"
    /\ \E a \in Aads, pk \in XdsaPublicKeys, d \in Domains, drift \in DriftOpts :
        res' = [op |-> "verify_detached", aad |-> a, verifier |-> pk, domain |-> d,
                drift |-> drift,
                out |-> cose_verify_detached(msg, a, pk, d, drift, now)]
    /\ UNCHANGED <<now, rng, msg, prov>>

CoseSigner ==
    /\ Idle
    /\ msg.shape = "sign1"
    /\ res' = [op |-> "signer", out |-> cose_signer(msg)]
    /\ UNCHANGED <<now, rng, msg, prov>>

CosePeek ==
    /\ Idle
    /\ msg.shape = "sign1"
    /\ res' = [op |-> "peek", out |-> cose_peek(msg)]
    /\ UNCHANGED <<now, rng, msg, prov>>

CoseRecipient ==
    /\ Idle
    /\ msg.shape = "encrypt0"
    /\ res' = [op |-> "recipient", out |-> cose_recipient(msg)]
    /\ UNCHANGED <<now, rng, msg, prov>>

CoseSeal ==
    /\ Idle
    /\ \E p \in Payloads, a \in Aads, sk \in XdsaSecretKeys, rpk \in XhpkePublicKeys,
          d \in Domains :
        LET r == cose_seal(p, a, sk, rpk, d, now, rng)
        IN  /\ r.ok
            /\ msg' = r.val
            /\ prov' = Prov("seal", p, a, sk, d, TRUE, a, d, rpk)
    /\ UNCHANGED <<now, rng, res>>

\* the caller encrypts the signed envelope it holds (from cose_sign or cose_decrypt)
CoseEncrypt ==
    /\ Idle
    /\ msg.shape = "sign1"
    /\ ~prov.flipped
    /\ \E a \in Aads, rpk \in XhpkePublicKeys, d \in Domains :
        LET r == cose_encrypt(msg, a, rpk, d, rng)
        IN  /\ r.ok
            /\ msg' = r.val
            /\ prov' = [prov EXCEPT
                           !.path = IF prov.path = "decrypt" THEN "forward" ELSE "encrypt",
                           !.encAad = a, !.encDomain = d, !.recipient = rpk]
    /\ UNCHANGED <<now, rng, res>>

\* on success the caller goes on with the returned signed envelope
CoseDecrypt ==
    /\ Idle
    /\ msg.shape = "encrypt0"
    /\ \E a \in Aads, rsk \in XhpkeSecretKeys, d \in Domains :
        LET r == cose_decrypt(msg, a, rsk, d)
        IN  /\ res' = [op |-> "decrypt", aad |-> a, recipient |-> rsk, domain |-> d,
                       out |-> r]
            /\ msg' = IF r.ok THEN r.val ELSE msg
            /\ prov' = IF r.ok
                       THEN [prov EXCEPT !.path = "decrypt", !.encAad = <<>>,
                                         !.encDomain = <<>>, !.recipient = NoKey]
                       ELSE prov
    /\ UNCHANGED <<now, rng>>

CoseOpen ==
    /\ Idle
    /\ msg.shape = "encrypt0"
    /\ \E a \in Aads, rsk \in XhpkeSecretKeys, pk \in XdsaPublicKeys, d \in Domains,
          drift \in DriftOpts :
        res' = [op |-> "open", aad |-> a, recipient |-> rsk, sender |-> pk,
                domain |-> d, drift |-> drift,
                out |-> cose_open(msg, a, rsk, pk, d, drift, now)]
    /\ UNCHANGED <<now, rng, msg, prov>>

StreamProv(key, plaintext) ==
    [path |-> "stream", flipped |-> FALSE, key |-> key, plaintext |-> plaintext]

StreamEncrypt ==
    /\ Idle
    /\ \E key \in StreamKeys, p \in Plaintexts :
        LET r == stream_encrypt(key, p)
        IN  /\ res' = [op |-> "stream_encrypt", key |-> key, plaintext |-> p, out |-> r,
                       mem |-> stream_encrypt_buffers(key, p)]
            /\ msg' = IF r.ok THEN [shape |-> "stream", chunks |-> r.val] ELSE msg
            /\ prov' = IF r.ok THEN StreamProv(key, p) ELSE prov
    /\ UNCHANGED <<now, rng>>

StreamDecrypt ==
    /\ Idle
    /\ msg.shape = "stream"
    /\ \E key \in StreamKeys :
        res' = [op |-> "stream_decrypt", key |-> key,
                out |-> stream_decrypt(key, msg.chunks),
                mem |-> stream_decrypt_buffers(key, msg.chunks)]
    /\ UNCHANGED <<now, rng, msg, prov>>

\* the ciphertext in transit loses its final chunk
StreamTruncate ==
    /\ Idle
    /\ msg.shape = "stream" /\ prov.path = "stream"
    /\ msg' = [msg EXCEPT !.chunks = SubSeq(@, 1, Len(@) - 1)]
    /\ prov' = [prov EXCEPT !.path = "stream_truncated", !.flipped = TRUE]
    /\ UNCHANGED <<now, rng, res>>

\* a bit of one chunk of the ciphertext in transit is flipped
StreamCorrupt ==
    /\ Idle
    /\ msg.shape = "stream" /\ prov.path = "stream"
    /\ \E i \in 1..Len(msg.chunks) :
        /\ msg' = [msg EXCEPT !.chunks[i].intact = FALSE]
        /\ prov' = [prov EXCEPT !.path = "stream_corrupted", !.flipped = TRUE]
    /\ UNCHANGED <<now, rng, res>>

\* two neighbouring chunks of the ciphertext in transit change places
StreamReorder ==
    /\ Idle
    /\ msg.shape = "stream" /\ prov.path = "stream"
    /\ \E i \in 1..(Len(msg.chunks) - 1) :
        /\ msg' = [msg EXCEPT !.chunks[i] = msg.chunks[i + 1],
                              !.chunks[i + 1] = msg.chunks[i]]
        /\ prov' = [prov EXCEPT !.path = "stream_reordered", !.flipped = TRUE]
    /\ UNCHANGED <<now, rng, res>>

\* the ciphertext in transit loses a chunk that is not the final one
StreamDrop ==
    /\ Idle
    /\ msg.shape = "stream" /\ prov.path = "stream"
    /\ \E i \in 1..(Len(msg.chunks) - 1) :
        /\ msg' = [msg EXCEPT !.chunks = SubSeq(@, 1, i - 1) \o SubSeq(@, i + 1, Len(@))]
        /\ prov' = [prov EXCEPT !.path = "stream_gap", !.flipped = TRUE]
    /\ UNCHANGED <<now, rng, res>>

CertProv(subject, signer, not_before, not_after) ==
    [path |-> "cert", flipped |-> FALSE, subject |-> subject, signer |-> signer,
     not_before |-> not_before, not_after |-> not_after]

\* the caller's side of an issuing call: the certificate, if one was
\* returned, becomes the bytes in transit
Issued(op, subject, signer, nb, na, out) ==
    /\ res' = [op |-> op, subject |-> subject, signer |-> signer,
               not_before |-> nb, not_after |-> na, out |-> out]
    /\ msg' = IF out.ok THEN out.val ELSE msg
    /\ prov' = IF out.ok THEN CertProv(subject, signer, nb, na) ELSE prov

XdsaToCertDer ==
    /\ Idle
    /\ \E self \in XdsaPublicKeys, signer \in XdsaSecretKeys, sn \in SubjectNames,
          isn \in IssuerNames, nb \in Times, na \in Times, ca \in CaOpts :
        Issued("to_cert_der", self, signer, nb, na,
               XdsaPublicKey_to_cert_der(self, signer, sn, isn, nb, na, ca[1], ca[2]))
    /\ UNCHANGED <<now, rng>>

XdsaToCertPem ==
    /\ Idle
    /\ \E self \in XdsaPublicKeys, signer \in XdsaSecretKeys, sn \in SubjectNames,
          isn \in IssuerNames, nb \in Times, na \in Times, ca \in CaOpts :
        Issued("to_cert_pem", self, signer, nb, na,
               XdsaPublicKey_to_cert_pem(self, signer, sn, isn, nb, na, ca[1], ca[2]))
    /\ UNCHANGED <<now, rng>>

XhpkeToCertDer ==
    /\ Idle
    /\ \E self \in XhpkePublicKeys, signer \in XdsaSecretKeys, sn \in SubjectNames,
          isn \in IssuerNames, nb \in Times, na \in Times, ca \in CaOpts :
        Issued("to_cert_der", self, signer, nb, na,
               XhpkePublicKey_to_cert_der(self, signer, sn, isn, nb, na, ca[1], ca[2]))
    /\ UNCHANGED <<now, rng>>

XhpkeToCertPem ==
    /\ Idle
    /\ \E self \in XhpkePublicKeys, signer \in XdsaSecretKeys, sn \in SubjectNames,
          isn \in IssuerNames, nb \in Times, na \in Times, ca \in CaOpts :
        Issued("to_cert_pem", self, signer, nb, na,
               XhpkePublicKey_to_cert_pem(self, signer, sn, isn, nb, na, ca[1], ca[2]))
    /\ UNCHANGED <<now, rng>>

XdsaFromCertDer ==
    /\ Idle
    /\ msg.shape = "cert"
    /\ \E signer \in XdsaPublicKeys :
        res' = [op |-> "from_cert", alg |-> "xdsa", encoding |-> "der", signer |-> signer,
                out |-> XdsaPublicKey_from_cert_der(msg, signer)]
    /\ UNCHANGED <<now, rng, msg, prov>>

XdsaFromCertPem ==
    /\ Idle
    /\ msg.shape = "cert"
    /\ \E signer \in XdsaPublicKeys :
        res' = [op |-> "from_cert", alg |-> "xdsa", encoding |-> "pem", signer |-> signer,
                out |-> XdsaPublicKey_from_cert_pem(msg, signer)]
    /\ UNCHANGED <<now, rng, msg, prov>>

XhpkeFromCertDer ==
    /\ Idle
    /\ msg.shape = "cert"
    /\ \E signer \in XdsaPublicKeys :
        res' = [op |-> "from_cert", alg |-> "xhpke", encoding |-> "der", signer |-> signer,
                out |-> XhpkePublicKey_from_cert_der(msg, signer)]
    /\ UNCHANGED <<now, rng, msg, prov>>

XhpkeFromCertPem ==
    /\ Idle
    /\ msg.shape = "cert"
    /\ \E signer \in XdsaPublicKeys :
        res' = [op |-> "from_cert", alg |-> "xhpke", encoding |-> "pem", signer |-> signer,
                out |-> XhpkePublicKey_from_cert_pem(msg, signer)]
    /\ UNCHANGED <<now, rng, msg, prov>>

\* One invocation of an exported function: call names the function and
\* carries its arguments; clock and rnd are what the system clock and the
\* random source return while the call runs.
Invoke(call, clock, rnd) ==
    CASE call.op = "cose_sign" ->
           Ok(cose_sign(call.msg_to_embed, call.msg_to_auth, call.signer, call.domain, clock))
      [] call.op = "cose_seal" ->
           cose_seal(call.msg_to_seal, call.msg_to_auth, call.signer, call.recipient,
                     call.domain, clock, rnd)
      [] call.op = "cose_encrypt" ->
           cose_encrypt(call.sign1, call.msg_to_auth, call.recipient, call.domain, rnd)
      [] call.op = "cose_verify" ->
           cose_verify(call.msg_to_check, call.msg_to_auth, call.verifier, call.domain,
                       call.max_drift_secs, clock)
      [] call.op = "cose_open" ->
           cose_open(call.msg_to_open, call.msg_to_auth, call.recipient, call.sender,
                     call.domain, call.max_drift_secs, clock)
      [] call.op = "stream_encrypt" -> stream_encrypt(call.key, call.plaintext)
      [] call.op = "stream_decrypt" -> stream_decrypt(call.key, call.ciphertext)
      [] call.op = "to_cert_der" ->
           XdsaPublicKey_to_cert_der(call.self, call.signer, "subject", "issuer",
                                     call.not_before, call.not_after, FALSE, None)
      [] call.op = "from_cert_der" -> XdsaPublicKey_from_cert_der(call.der, call.signer)

\* the arguments the calls are made with: one payload, the empty aad and
\* domain, and envelopes, ciphertexts and certificates made by this API
CallSigner == CHOOSE sk \in XdsaSecretKeys : TRUE
CallRecipient == CHOOSE sk \in XhpkeSecretKeys : TRUE
CallEnvelopes == {cose_sign(<<1>>, <<>>, CallSigner, <<>>, t) : t \in Times}
CallSealed ==
    {cose_seal(<<1>>, <<>>, CallSigner, XhpkeSecretKey_public_key(CallRecipient),
               <<>>, t, r).val : t \in Times, r \in Nonces}
CallStreamKeys == {k \in StreamKeys : Len(k) = KeyLen}
CallPlaintexts == {<<>>, <<1, 0, 1>>}
CallCerts ==
    {XdsaPublicKey_to_cert_der(XdsaSecretKey_public_key(CallSigner), CallSigner,
                               "subject", "issuer", t, t, FALSE, None).val : t \in Times}

Calls ==
    {[op |-> "cose_sign", msg_to_embed |-> <<1>>, msg_to_auth |-> a, signer |-> sk,
      domain |-> <<>>] : a \in Aads, sk \in XdsaSecretKeys}
    \cup {[op |-> "cose_seal", msg_to_seal |-> <<1>>, msg_to_auth |-> <<>>, signer |-> sk,
           recipient |-> rpk, domain |-> <<>>] :
              sk \in XdsaSecretKeys, rpk \in XhpkePublicKeys}
    \cup {[op |-> "cose_encrypt", sign1 |-> e, msg_to_auth |-> <<>>, recipient |-> rpk,
           domain |-> <<>>] : e \in CallEnvelopes, rpk \in XhpkePublicKeys}
    \cup {[op |-> "cose_verify", msg_to_check |-> e, msg_to_auth |-> <<>>, verifier |-> pk,
           domain |-> <<>>, max_drift_secs |-> drift] :
              e \in CallEnvelopes, pk \in XdsaPublicKeys, drift \in DriftOpts}
    \cup {[op |-> "cose_open", msg_to_open |-> e, msg_to_auth |-> <<>>,
           recipient |-> CallRecipient, sender |-> XdsaSecretKey_public_key(CallSigner),
           domain |-> <<>>, max_drift_secs |-> drift] :
              e \in CallSealed, drift \in DriftOpts}
    \cup {[op |-> "stream_encrypt", key |-> k, plaintext |-> p] :
              k \in StreamKeys, p \in CallPlaintexts}
    \cup {[op |-> "stream_decrypt", key |-> k, ciphertext |-> stream_encrypt(k2, p).val] :
              k \in CallStreamKeys, k2 \in CallStreamKeys, p \in CallPlaintexts}
    \cup {[op |-> "to_cert_der", self |-> pk, signer |-> CallSigner,
           not_before |-> nb, not_after |-> na] :
              pk \in XdsaPublicKeys, nb \in Times, na \in Times}
    \cup {[op |-> "from_cert_der", der |-> c, signer |-> pk] :
              c \in CallCerts, pk \in XdsaPublicKeys}

\* a first invocation; prov keeps the call, what the clock and the random
\* source returned during it, and its result
FirstCall ==
    /\ Idle
    /\ \E call \in Calls :
        prov' = [path |-> "call", flipped |-> FALSE, call |-> call, clock |-> now,
                 rnd |-> rng, out |-> Invoke(call, now, rng)]
    /\ UNCHANGED <<now, rng, msg, res>>

\* a second invocation of the same function with the same arguments
SecondCall ==
    /\ Idle
    /\ prov.path = "call"
    /\ res' = [op |-> "again", clock |-> now, rnd |-> rng,
               out |-> Invoke(prov.call, now, rng)]
    /\ UNCHANGED <<now, rng, msg, prov>>

\* a from_bytes call of one of the handle types
FromBytes(type, bytes, out) ==
    /\ res' = [op |-> "from_bytes", type |-> type, bytes |-> bytes, out |-> out]
    /\ UNCHANGED <<now, rng, msg, prov>>

XdsaSecretKeyFromBytes ==
    /\ Idle
    /\ \E bytes \in ByteInputs(XdsaSecretKeyLen) :
        FromBytes("XdsaSecretKey", bytes, XdsaSecretKey_from_bytes(bytes))

XdsaPublicKeyFromBytes ==
    /\ Idle
    /\ \E bytes \in ByteInputs(XdsaPublicKeyLen) :
        FromBytes("XdsaPublicKey", bytes, XdsaPublicKey_from_bytes(bytes))

XdsaSignatureFromBytes ==
    /\ Idle
    /\ \E bytes \in ByteInputs(XdsaSignatureLen) :
        FromBytes("XdsaSignature", bytes, XdsaSignature_from_bytes(bytes))

XdsaFingerprintFromBytes ==
    /\ Idle
    /\ \E bytes \in ByteInputs(XdsaFingerprintLen) :
        FromBytes("XdsaFingerprint", bytes, XdsaFingerprint_from_bytes(bytes))

XhpkeSecretKeyFromBytes ==
    /\ Idle
    /\ \E bytes \in ByteInputs(XhpkeSecretKeyLen) :
        FromBytes("XhpkeSecretKey", bytes, XhpkeSecretKey_from_bytes(bytes))

XhpkePublicKeyFromBytes ==
    /\ Idle
    /\ \E bytes \in ByteInputs(XhpkePublicKeyLen) :
        FromBytes("XhpkePublicKey", bytes, XhpkePublicKey_from_bytes(bytes))

XhpkeFingerprintFromBytes ==
    /\ Idle
    /\ \E bytes \in ByteInputs(XhpkeFingerprintLen) :
        FromBytes("XhpkeFingerprint", bytes, XhpkeFingerprint_from_bytes(bytes))

\* XhpkePublicKey::seal: the session key and the ciphertext go to the recipient
XhpkeSeal ==
    /\ Idle
    /\ \E self \in XhpkePublicKeys, p \in Payloads, a \in Aads, d \in Domains :
        LET r == XhpkePublicKey_seal(self, p, a, d, rng)
        IN  /\ msg' = [shape |-> "hpke", session_key |-> r.val[1], ciphertext |-> r.val[2]]
            /\ prov' = [path |-> "hpke", flipped |-> FALSE, recipient |-> self,
                        plaintext |-> p, aad |-> a, domain |-> d]
    /\ UNCHANGED <<now, rng, res>>

\* XhpkeSecretKey::open with the session key as received, or with one byte
\* less or one more
XhpkeOpen ==
    /\ Idle
    /\ msg.shape = "hpke"
    /\ \E self \in XhpkeSecretKeys,
          session_key \in {msg.session_key,
                           SubSeq(msg.session_key, 1, XhpkeSessionKeyLen - 1),
                           Append(msg.session_key, 0)} :
        res' = [op |-> "xhpke_open", recipient |-> self, session_key |-> session_key,
                out |-> XhpkeSecretKey_open(self, session_key, msg.ciphertext,
                                            prov.aad, prov.domain)]
    /\ UNCHANGED <<now, rng, msg, prov>>

Init ==
    /\ now = 0
    /\ rng = 0
    /\ msg = NoMsg
    /\ prov = NoProv
    /\ res = NoRes

\* the signed envelope: cose_sign, cose_sign_detached, cose_verify,
\* cose_verify_detached, cose_signer, cose_peek
NextSign ==
    \/ SetClock
    \/ Consume
    \/ CoseSign
    \/ CoseSignDetached
    \/ TamperSign1
    \/ CoseVerify
    \/ CoseVerifyDetached
    \/ CoseSigner
    \/ CosePeek

SpecSign == Init /\ [][NextSign]_vars

\* signed and encrypted envelopes in transit: cose_sign, cose_seal, a bit
\* flipped, cose_verify, cose_open and the unverified extractors
NextEnvelope ==
    \/ SetClock
    \/ Consume
    \/ CoseSign
    \/ CoseSeal
    \/ TamperSign1
    \/ TamperEncrypt0
    \/ CoseVerify
    \/ CoseOpen
    \/ CoseSigner
    \/ CosePeek
    \/ CoseRecipient

SpecEnvelope == Init /\ [][NextEnvelope]_vars

\* forwarding: cose_seal, cose_decrypt, cose_verify on the decrypted
\* structure, cose_encrypt to the next recipient, cose_open
NextForward ==
    \/ SetClock
    \/ Consume
    \/ CoseSeal
    \/ CoseDecrypt
    \/ CoseVerify
    \/ CoseEncrypt
    \/ CoseOpen

SpecForward == Init /\ [][NextForward]_vars

\* the STREAM functions: stream_encrypt, stream_decrypt
NextStream ==
    \/ Consume
    \/ StreamEncrypt
    \/ StreamDecrypt

SpecStream == Init /\ [][NextStream]_vars

\* the STREAM ciphertext in transit: truncated, corrupted, reordered, a chunk lost
NextStreamTransit ==
    \/ Consume
    \/ StreamEncrypt
    \/ StreamTruncate
    \/ StreamCorrupt
    \/ StreamReorder
    \/ StreamDrop
    \/ StreamDecrypt

SpecStreamTransit == Init /\ [][NextStreamTransit]_vars

\* certificates: issued, carried to another host, parsed and verified there
NextCert ==
    \/ SetClock
    \/ Consume
    \/ XdsaToCertDer
    \/ XdsaToCertPem
    \/ XhpkeToCertDer
    \/ XhpkeToCertPem
    \/ XdsaFromCertDer
    \/ XdsaFromCertPem
    \/ XhpkeFromCertDer
    \/ XhpkeFromCertPem

SpecCert == Init /\ [][NextCert]_vars

\* the same call made twice, the clock and the random source moving in between
NextRepeat ==
    \/ SetClock
    \/ Reseed
    \/ Consume
    \/ FirstCall
    \/ SecondCall

SpecRepeat == Init /\ [][NextRepeat]_vars

\* the functions that take a byte input of a fixed length
NextBytes ==
    \/ Consume
    \/ Reseed
    \/ XdsaSecretKeyFromBytes
    \/ XdsaPublicKeyFromBytes
    \/ XdsaSignatureFromBytes
    \/ XdsaFingerprintFromBytes
    \/ XhpkeSecretKeyFromBytes
    \/ XhpkePublicKeyFromBytes
    \/ XhpkeFingerprintFromBytes
    \/ XhpkeSeal
    \/ XhpkeOpen
    \/ StreamEncrypt
    \/ StreamDecrypt

SpecBytes == Init /\ [][NextBytes]_vars

\* routing by fingerprint: envelopes are produced and their headers read
NextRouting ==
    \/ Consume
    \/ Reseed
    \/ CoseSign
    \/ CoseSignDetached
    \/ CoseSeal
    \/ CoseEncrypt
    \/ CoseSigner
    \/ CoseRecipient

SpecRouting == Init /\ [][NextRouting]_vars

----------------------------------------------------------------------------
(* Properties *)

\* the arguments of the verifying call in res are the ones msg was signed with
VerifyArgsMatch ==
    /\ res.aad = prov.aad
    /\ res.domain = prov.domain
    /\ res.verifier = XdsaSecretKey_public_key(prov.signer)

\* the arguments of the opening call in res are the ones msg was encrypted with
OpenArgsMatch ==
    /\ res.aad = prov.aad
    /\ res.domain = prov.domain
    /\ res.sender = XdsaSecretKey_public_key(prov.signer)
    /\ XhpkeSecretKey_public_key(res.recipient) = prov.recipient

\* C1: cose_verify of an unmodified cose_sign output, with the same aad and
\* domain, the signer's public key and no drift bound, returns Ok(payload).
C1_SignVerifyRoundTrip ==
    (res.op = "verify" /\ prov.path = "sign" /\ ~prov.flipped
        /\ VerifyArgsMatch /\ res.drift = None)
    => (res.out.ok /\ res.out.val = prov.payload)

\* a round trip of a non-empty payload, verified at a later clock reading
C1_Witness ==
    /\ res.op = "verify" /\ prov.path = "sign" /\ ~prov.flipped
    /\ VerifyArgsMatch /\ res.drift = None
    /\ prov.payload # <<>> /\ prov.aad # prov.payload
    /\ now > msg.protected.ts
    /\ res.out.ok

\* C2: cose_open of an unmodified cose_seal output, with the same aad and
\* domain, the recipient's secret key, the signer's public key and no drift
\* bound, returns Ok(m).
C2_SealOpenRoundTrip ==
    (res.op = "open" /\ prov.path = "seal" /\ ~prov.flipped
        /\ OpenArgsMatch /\ res.drift = None)
    => (res.out.ok /\ res.out.val = prov.payload)

C2_Witness ==
    /\ res.op = "open" /\ prov.path = "seal" /\ ~prov.flipped
    /\ OpenArgsMatch /\ res.drift = None
    /\ prov.payload # <<>> /\ prov.aad # prov.domain
    /\ res.out.ok

\* C3: after one bit of a cose_sign output, or of a cose_seal output, is
\* flipped, cose_verify resp. cose_open returns an error, whatever aad, key,
\* domain and drift bound it is called with.
C3_BitFlipRejected ==
    (res.op \in {"verify", "open"} /\ prov.path \in {"sign", "seal"} /\ prov.flipped)
    => ~res.out.ok

\* a flipped payload bit of a signed envelope, checked with the arguments
\* the envelope was made with
C3_Witness ==
    /\ res.op = "verify" /\ prov.path = "sign" /\ prov.flipped /\ VerifyArgsMatch
    /\ DecodesAsSign1(msg) /\ msg.payload.bytes # prov.payload
    /\ ~res.out.ok

\* C4: an unmodified cose_sign / cose_seal output is rejected by cose_verify /
\* cose_open when the aad or the domain of the call differs from the one it
\* was made with, whatever the other arguments are.
C4_AadDomainBound ==
    (res.op \in {"verify", "open"} /\ prov.path \in {"sign", "seal"} /\ ~prov.flipped
        /\ (res.aad # prov.aad \/ res.domain # prov.domain))
    => ~res.out.ok

\* same payload, aad and keys, only the domain differs
C4_Witness ==
    /\ res.op = "verify" /\ prov.path = "sign" /\ ~prov.flipped
    /\ res.aad = prov.aad /\ res.domain # prov.domain
    /\ res.verifier = XdsaSecretKey_public_key(prov.signer)
    /\ res.drift = None
    /\ ~res.out.ok

\* C5: for an unmodified cose_sign output with header timestamp t, checked with
\* matching aad, domain and key: cose_verify with Some(d) succeeds exactly
\* when |now - t| <= d, and with None it succeeds for every t.
C5_DriftBoundary ==
    (res.op = "verify" /\ prov.path = "sign" /\ ~prov.flipped /\ VerifyArgsMatch)
    => LET t == msg.protected.ts
       IN  res.out.ok <=>
             (res.drift.some => (now - t <= res.drift.v /\ t - now <= res.drift.v))

\* a timestamp in the future, one second beyond the bound
C5_Witness ==
    /\ res.op = "verify" /\ prov.path = "sign" /\ ~prov.flipped /\ VerifyArgsMatch
    /\ res.drift.some
    /\ msg.protected.ts - now = res.drift.v + 1
    /\ ~res.out.ok

\* C6: made with the same aad, key, domain and timestamp, a detached signature
\* passes cose_verify_detached exactly when the embedded one passes
\* cose_verify, for every payload and whatever key, domain and drift bound
\* the two are checked with.
C6_DetachedEmbeddedEquivalent ==
    /\ (res.op = "verify_detached" /\ prov.path = "sign_detached" /\ ~prov.flipped
           /\ res.aad = prov.aad)
       => \A p \in Payloads :
            res.out.ok <=>
              cose_verify(cose_sign(p, prov.aad, prov.signer, prov.domain, msg.protected.ts),
                          res.aad, res.verifier, res.domain, res.drift, now).ok
    /\ (res.op = "verify" /\ prov.path = "sign" /\ ~prov.flipped /\ res.aad = prov.aad)
       => (res.out.ok <=>
              cose_verify_detached(
                  cose_sign_detached(prov.aad, prov.signer, prov.domain, msg.protected.ts),
                  res.aad, res.verifier, res.domain, res.drift, now).ok)

\* a detached signature refused as stale, as the embedded one would be
C6_Witness ==
    /\ res.op = "verify_detached" /\ prov.path = "sign_detached" /\ ~prov.flipped
    /\ VerifyArgsMatch
    /\ res.drift.some /\ now - msg.protected.ts > res.drift.v
    /\ ~res.out.ok

\* the envelope cose_sign returned, its signature field replaced by garbage
GarbageSigned ==
    /\ prov.path = "sign" /\ prov.flipped
    /\ \E t \in Times :
          msg = FlipSign1(cose_sign(prov.payload, prov.aad, prov.signer, prov.domain, t),
                          <<"sig", 0>>)

\* the envelope cose_seal returned, its ciphertext replaced by garbage
GarbageSealed ==
    /\ prov.path = "seal" /\ prov.flipped
    /\ DecodesAsEncrypt0(msg) /\ ~msg.ct.intact

\* C7: on a well-formed envelope whose signature field is not a valid
\* signature, cose_peek returns the embedded payload and cose_signer the
\* header fingerprint, while cose_verify returns an error; likewise
\* cose_recipient returns the header fingerprint of an encrypted envelope
\* that cose_open refuses.
C7_PeekSignerUnverified ==
    /\ GarbageSigned =>
        /\ res.op = "peek" => (res.out.ok /\ res.out.val = prov.payload)
        /\ res.op = "signer" =>
              (res.out.ok /\ res.out.val = XdsaSecretKey_fingerprint(prov.signer))
        /\ res.op = "verify" => ~res.out.ok
    /\ GarbageSealed =>
        /\ res.op = "recipient" =>
              (res.out.ok /\ res.out.val = XhpkePublicKey_fingerprint(prov.recipient))
        /\ res.op = "open" => ~res.out.ok

C7_Witness ==
    /\ GarbageSigned
    /\ res.op = "peek" /\ res.out.ok /\ res.out.val = prov.payload
    /\ prov.payload # <<>>

\* C8: a sealed message decrypted by its recipient and encrypted again, with
\* the same aad and domain, to another recipient opens to m for that
\* recipient; and the decrypted structure passes cose_verify.
C8_ReencryptKeepsSignature ==
    /\ (res.op = "open" /\ prov.path = "forward" /\ prov.sealed
           /\ prov.encAad = prov.aad /\ prov.encDomain = prov.domain
           /\ OpenArgsMatch /\ res.drift = None)
       => (res.out.ok /\ res.out.val = prov.payload)
    /\ (res.op = "verify" /\ prov.path = "decrypt" /\ prov.sealed
           /\ VerifyArgsMatch /\ res.drift = None)
       => (res.out.ok /\ res.out.val = prov.payload)

\* opened by a recipient other than the one the message was sealed to
C8_Witness ==
    /\ res.op = "open" /\ prov.path = "forward" /\ prov.sealed
    /\ prov.encAad = prov.aad /\ prov.encDomain = prov.domain
    /\ OpenArgsMatch /\ res.drift = None
    /\ prov.recipient # prov.sealedTo
    /\ prov.payload # <<>>
    /\ res.out.ok

\* C9: cose_open returns what cose_decrypt followed by cose_verify on the
\* decrypted structure returns, with the same aad, domain and drift bound: a
\* payload when both succeed, an error when either fails.
C9_OpenIsDecryptThenVerify ==
    res.op = "open" =>
        LET s == cose_decrypt(msg, res.aad, res.recipient, res.domain)
        IN  IF ~s.ok THEN ~res.out.ok
            ELSE LET v == cose_verify(s.val, res.aad, res.sender, res.domain,
                                      res.drift, now)
                 IN  /\ res.out.ok <=> v.ok
                     /\ v.ok => res.out.val = v.val

\* the decryption succeeds and the verification fails on the drift bound
C9_Witness ==
    /\ res.op = "open" /\ prov.path = "seal" /\ ~prov.flipped /\ OpenArgsMatch
    /\ res.drift.some
    /\ cose_decrypt(msg, res.aad, res.recipient, res.domain).ok
    /\ ~res.out.ok

\* C10: stream_decrypt of an unmodified stream_encrypt output under the same
\* 32-byte key returns Ok(p), for every plaintext p of the model: every one
\* of 0..ChunkSize + 1 bytes and those of 10 * ChunkSize bytes.
C10_StreamRoundTrip ==
    (res.op = "stream_decrypt" /\ prov.path = "stream" /\ ~prov.flipped
        /\ res.key = prov.key)
    => (res.out.ok /\ res.out.val = prov.plaintext)

\* ten full chunks, the last of them ending on the chunk boundary
C10_Witness ==
    /\ res.op = "stream_decrypt" /\ prov.path = "stream" /\ ~prov.flipped
    /\ res.key = prov.key
    /\ Len(prov.plaintext) = 10 * ChunkSize
    /\ Len(msg.chunks) = 10
    /\ \E i \in 1..Len(prov.plaintext) : prov.plaintext[i] # prov.plaintext[1]
    /\ res.out.ok /\ res.out.val = prov.plaintext

\* what the reader had appended to the caller's buffer when the last
\* stream_decrypt call ended
StreamReadBuf == darkbio_stream_read_to_end(res.key, msg.chunks).buf

\* C11: stream_decrypt of a stream_encrypt output whose final chunk was removed
\* returns an error, whatever remains (full chunks only, or nothing) and
\* whatever the key; no prefix of the plaintext is returned.
C11_TruncationRejected ==
    (res.op = "stream_decrypt" /\ prov.path = "stream_truncated")
    => (~res.out.ok /\ "val" \notin DOMAIN res.out)

\* the remainder ends on a chunk boundary and every chunk of it authenticated
C11_Witness ==
    /\ res.op = "stream_decrypt" /\ prov.path = "stream_truncated"
    /\ res.key = prov.key
    /\ Len(msg.chunks) >= 1
    /\ \A i \in 1..Len(msg.chunks) : Len(msg.chunks[i].data) = ChunkSize
    /\ StreamReadBuf = SubSeq(prov.plaintext, 1, ChunkSize * Len(msg.chunks))
    /\ ~res.out.ok

\* nothing remains of the ciphertext of an empty plaintext
C11_WitnessEmpty ==
    /\ res.op = "stream_decrypt" /\ prov.path = "stream_truncated"
    /\ res.key = prov.key
    /\ msg.chunks = <<>> /\ prov.plaintext = <<>>
    /\ ~res.out.ok

\* the ciphertext was changed in transit in one of the four ways
StreamTampered ==
    prov.path \in {"stream_truncated", "stream_corrupted", "stream_reordered", "stream_gap"}

\* C12: when a chunk fails authentication, chunks are reordered, a chunk is
\* missing or the final chunk is missing, stream_decrypt returns the
\* decryption error and nothing else: none of the plaintext, not even that
\* of the chunks which authenticated before the failing one.
C12_NoPartialOutput ==
    (res.op = "stream_decrypt" /\ StreamTampered /\ Len(res.key) = KeyLen)
    => res.out = Err("Decryption error")

\* a chunk after the first fails to authenticate: the reader had already
\* appended the plaintext of the chunks before it
C12_Witness ==
    /\ res.op = "stream_decrypt" /\ res.key = prov.key
    /\ prov.path \in {"stream_corrupted", "stream_reordered", "stream_gap"}
    /\ StreamReadBuf # <<>>
    /\ StreamReadBuf = SubSeq(prov.plaintext, 1, Len(StreamReadBuf))
    /\ res.out = Err("Decryption error")

\* C13: to_cert_der / to_cert_pem of either kind of public key return an
\* error and no certificate when not_before > not_after, and a certificate
\* when not_before <= not_after, not_before = not_after included.
C13_ValidityWindowChecked ==
    res.op \in {"to_cert_der", "to_cert_pem"} =>
        /\ res.not_before > res.not_after => (~res.out.ok /\ "val" \notin DOMAIN res.out)
        /\ res.not_before <= res.not_after =>
              (res.out.ok /\ res.out.val.shape = "cert" /\ msg = res.out.val)

\* the issuing call was refused: the period ends before it starts
C13_Witness ==
    /\ res.op \in {"to_cert_der", "to_cert_pem"}
    /\ res.not_before > res.not_after
    /\ ~res.out.ok

\* a period of a single second is accepted
C13_WitnessEqual ==
    /\ res.op \in {"to_cert_der", "to_cert_pem"}
    /\ res.not_before = res.not_after
    /\ res.out.ok

\* the parsing call in res is the one for the certificate's key algorithm
\* and encoding
CertCallFits ==
    /\ res.op = "from_cert" /\ prov.path = "cert"
    /\ res.alg = prov.subject.inner.alg
    /\ res.encoding = msg.encoding

\* C14: a certificate issued with issuer X's secret key, checked against the
\* public key of a different issuer Y, is rejected: an error, and neither a
\* subject key nor a validity window.
C14_WrongIssuerRejected ==
    (res.op = "from_cert" /\ prov.path = "cert"
        /\ res.signer # XdsaSecretKey_public_key(prov.signer))
    => (~res.out.ok /\ "val" \notin DOMAIN res.out)

\* the issuer is the only thing wrong with the call
C14_Witness ==
    /\ CertCallFits
    /\ res.signer # XdsaSecretKey_public_key(prov.signer)
    /\ ~res.out.ok

\* C15: from_cert_der / from_cert_pem of a certificate for subject key K with
\* window (not_before, not_after), against the issuer's public key, return
\* exactly (K, not_before, not_after), whatever the clock shows.
C15_CertRoundTrip ==
    (CertCallFits /\ res.signer = XdsaSecretKey_public_key(prov.signer))
    => res.out = Ok(<<prov.subject, prov.not_before, prov.not_after>>)

\* parsed after the window has ended
C15_Witness ==
    /\ CertCallFits /\ res.signer = XdsaSecretKey_public_key(prov.signer)
    /\ prov.not_before < prov.not_after
    /\ now > prov.not_after
    /\ res.out = Ok(<<prov.subject, prov.not_before, prov.not_after>>)

\* parsed before the window has begun
C15_WitnessEarly ==
    /\ CertCallFits /\ res.signer = XdsaSecretKey_public_key(prov.signer)
    /\ now < prov.not_before
    /\ res.out.ok

\* C16: when stream_encrypt or stream_decrypt returns, with a result or with
\* an error, every buffer the call has put key bytes in has been overwritten.
C16_KeyBuffersOverwritten ==
    res.op \in {"stream_encrypt", "stream_decrypt"} =>
        \A b \in DOMAIN res.mem : res.mem[b].overwritten

ReadsClock(call) ==
    \/ call.op \in {"cose_sign", "cose_seal"}
    \/ call.op \in {"cose_verify", "cose_open"} /\ call.max_drift_secs.some

\* the call's result may depend on the random source: key encapsulation,
\* and the signing calls
ReadsRandom(call) ==
    call.op \in {"cose_sign", "cose_seal", "cose_encrypt", "to_cert_der"}

ChunkNonce(c) == <<c.counter, c.last>>

\* C18: in the output of one stream_encrypt call the chunk counters are
\* 0, 1, 2, ... in order, so no two chunks share a nonce, and the
\* end-of-stream flag is set on exactly one chunk, the last, which exists
\* also for an empty plaintext.
C18_ChunkNonces ==
    (msg.shape = "stream" /\ prov.path = "stream") =>
        /\ Len(msg.chunks) >= 1
        /\ \A i \in 1..Len(msg.chunks) :
              /\ msg.chunks[i].counter = i - 1
              /\ msg.chunks[i].last = (i = Len(msg.chunks))
              /\ msg.chunks[i].key = prov.key
        /\ \A i, j \in 1..Len(msg.chunks) :
              i # j => ChunkNonce(msg.chunks[i]) # ChunkNonce(msg.chunks[j])

\* a stream of ten chunks, as stream_encrypt returned it
C18_Witness ==
    /\ res.op = "stream_encrypt" /\ res.out.ok /\ msg.chunks = res.out.val
    /\ prov.path = "stream"
    /\ Len(msg.chunks) = 10
    /\ msg.chunks[10].counter = 9 /\ msg.chunks[10].last
    /\ \A i \in 1..9 : ~msg.chunks[i].last

\* the single, empty, final chunk of an empty plaintext
C18_WitnessEmpty ==
    /\ res.op = "stream_encrypt" /\ res.out.ok /\ msg.chunks = res.out.val
    /\ prov.path = "stream" /\ prov.plaintext = <<>>
    /\ Len(msg.chunks) = 1 /\ msg.chunks[1].last /\ msg.chunks[1].data = <<>>

\* the lengths the claim names, and the length error of each call
FixedLength ==
    [XdsaSecretKey |-> 64, XdsaPublicKey |-> 1984, XdsaSignature |-> 3373,
     XdsaFingerprint |-> 32, XhpkeSecretKey |-> 32, XhpkePublicKey |-> 1216,
     XhpkeFingerprint |-> 32]
LengthError ==
    [XdsaSecretKey |-> "Invalid key length, expected 64 bytes",
     XdsaPublicKey |-> "Invalid key length, expected 1984 bytes",
     XdsaSignature |-> "Invalid signature length, expected 3373 bytes",
     XdsaFingerprint |-> "Invalid fingerprint length, expected 32 bytes",
     XhpkeSecretKey |-> "Invalid key length, expected 32 bytes",
     XhpkePublicKey |-> "Invalid key length, expected 1216 bytes",
     XhpkeFingerprint |-> "Invalid fingerprint length, expected 32 bytes"]

\* the call returned the length error and nothing else
RejectedForLength(out, message) == out = Err(message)

\* C19: a byte input of any length but the fixed one is rejected with the
\* length error and no object or output (stream key 32, xDSA seed 64, public
\* key 1984 and signature 3373, xHPKE public key 1216, seed 32 and session
\* key 1120, fingerprints 32); an input of exactly the fixed length is never
\* rejected by the length check.
C19_FixedLengthInputs ==
    /\ res.op = "from_bytes" =>
          (RejectedForLength(res.out, LengthError[res.type])
              <=> Len(res.bytes) # FixedLength[res.type])
    /\ res.op \in {"stream_encrypt", "stream_decrypt"} =>
          (RejectedForLength(res.out, "Invalid key length, expected 32 bytes")
              <=> Len(res.key) # 32)
    /\ res.op = "xhpke_open" =>
          (RejectedForLength(res.out, "Invalid session key length, expected 1120 bytes")
              <=> Len(res.session_key) # 1120)

\* a session key one byte short is refused although its bytes are those of
\* the session key that opens the ciphertext
C19_Witness ==
    /\ res.op = "xhpke_open"
    /\ Len(res.session_key) = 1119
    /\ XhpkeSecretKey_public_key(res.recipient) = prov.recipient
    /\ XhpkeSecretKey_open(res.recipient, msg.session_key, msg.ciphertext,
                           prov.aad, prov.domain) = Ok(prov.plaintext)
    /\ RejectedForLength(res.out, "Invalid session key length, expected 1120 bytes")

\* a public key of the right length passes the length check and is refused
\* by the library's validation
C19_WitnessValidated ==
    /\ res.op = "from_bytes" /\ res.type = "XdsaPublicKey"
    /\ Len(res.bytes) = 1984
    /\ ~res.out.ok /\ res.out.err = "invalid public key encoding"

\* C20: the fingerprint cose_signer reads from a cose_sign output is that of
\* the signing key's public key, which is also what the secret key's own
\* fingerprint() returns; the fingerprint cose_recipient reads from a
\* cose_seal or cose_encrypt output is that of the recipient's public key.
C20_FingerprintsIdentifyKeys ==
    /\ (res.op = "signer" /\ prov.path \in {"sign", "sign_detached"} /\ ~prov.flipped) =>
          /\ res.out = Ok(XdsaPublicKey_fingerprint(XdsaSecretKey_public_key(prov.signer)))
          /\ res.out = Ok(XdsaSecretKey_fingerprint(prov.signer))
    /\ (res.op = "recipient" /\ prov.path \in {"seal", "encrypt"} /\ ~prov.flipped) =>
          res.out = Ok(XhpkePublicKey_fingerprint(prov.recipient))

\* cose_recipient on the output of cose_encrypt of a cose_sign output
C20_Witness ==
    /\ res.op = "recipient" /\ prov.path = "encrypt" /\ ~prov.flipped
    /\ res.out = Ok(XhpkePublicKey_fingerprint(prov.recipient))
    /\ \E other \in XhpkePublicKeys :
          XhpkePublicKey_fingerprint(other) # XhpkePublicKey_fingerprint(prov.recipient)

\* cose_signer on a cose_sign output
C20_WitnessSigner ==
    /\ res.op = "signer" /\ prov.path = "sign" /\ ~prov.flipped
    /\ res.out = Ok(XdsaSecretKey_fingerprint(prov.signer))

\* cose_recipient on a cose_seal output
C20_WitnessSeal ==
    /\ res.op = "recipient" /\ prov.path = "seal" /\ ~prov.flipped
    /\ res.out = Ok(XhpkePublicKey_fingerprint(prov.recipient))

====
